---- MODULE Spec2Model ----
(***************************************************************************)
(* Model of plot.py, the benchmark plotter: argument handling, statistic   *)
(* validation, column-name derivation, CSV load, the three views of each   *)
(* figure and the final display.                                           *)
(*                                                                         *)
(* A Python string is a sequence of chunks; a chunk is either one          *)
(* whitespace character or a whitespace-free piece of text.  Strings the   *)
(* program inspects letter by letter (the statistic) are sequences of      *)
(* single characters.  Str flattens a string to one chunk.                 *)
(***************************************************************************)
EXTENDS Integers, Sequences, FiniteSets, TLC

VARIABLES argv, fs, pc, task, csv, column_to_plot, df, figures, stderr,
          exc, exit_code, shown, reads, steps

vars == <<argv, fs, pc, task, csv, column_to_plot, df, figures, stderr,
          exc, exit_code, shown, reads, steps>>

(***************************************************************************)
(* Bounds of the model.                                                    *)
(***************************************************************************)
MaxArgc == 4
MaxRows == 2
MaxVal == 2

(***************************************************************************)
(* Strings.                                                                *)
(***************************************************************************)
RECURSIVE Str(_)
Str(s) == IF s = <<>> THEN "" ELSE Head(s) \o Str(Tail(s))

Whitespace == {" ", "\t", "\n"}

UpperChars == <<"A","B","C","D","E","F","G","H","I","J","K","L","M",
                "N","O","P","Q","R","S","T","U","V","W","X","Y","Z">>
LowerChars == <<"a","b","c","d","e","f","g","h","i","j","k","l","m",
                "n","o","p","q","r","s","t","u","v","w","x","y","z">>

lower_char(c) ==
    IF \E i \in 1..Len(UpperChars) : UpperChars[i] = c
    THEN LowerChars[CHOOSE i \in 1..Len(UpperChars) : UpperChars[i] = c]
    ELSE c

\* the statistic taken as typed
str_lower_as_typed(s) == s

\* str.lower()
str_lower(s) == [i \in 1..Len(s) |-> lower_char(s[i])]

RECURSIVE SplitFrom(_, _, _)
SplitFrom(s, cur, acc) ==
    IF s = <<>>
    THEN IF cur = "" THEN acc ELSE Append(acc, cur)
    ELSE IF Head(s) \in Whitespace
         THEN SplitFrom(Tail(s), "", IF cur = "" THEN acc ELSE Append(acc, cur))
         ELSE SplitFrom(Tail(s), cur \o Head(s), acc)

\* str.split() with no separator: runs of whitespace separate, no empty pieces
str_split(s) == SplitFrom(s, "", <<>>)

(***************************************************************************)
(* Standard error.                                                         *)
(***************************************************************************)
USAGE_STR == "USAGE: python plot.py CSV [STAT]"
STAT_ERROR == "ERROR: the provided statistic is not available."
NO_FILE_ERROR == "Error: no input file provided"
TRACEBACK == "Traceback (most recent call last)"

print_usage == <<USAGE_STR>>

(***************************************************************************)
(* get_column_to_plot: the statistic is validated, then the five names are *)
(* obtained by formatting one text and splitting it at whitespace.         *)
(***************************************************************************)
ValidStats == {<<"m","i","n">>, <<"m","e","a","n">>, <<"m","a","x">>}

FormatColumns(l) ==
    <<"std_">> \o l \o <<" ", "parse_integer_no_simd_">> \o l
    \o <<" ", "std_delimeter_">> \o l
    \o <<" ", "parse_integer_no_simd_delimeter_">> \o l
    \o <<" ", "parse_integer_simd_delimeter_">> \o l

\* the validation reports the error and goes on
get_column_to_plot_no_exit(stat) ==
    [exited |-> FALSE,
     err |-> IF str_lower(stat) \notin ValidStats
             THEN print_usage \o <<STAT_ERROR>> ELSE <<>>,
     value |-> str_split(FormatColumns(str_lower(stat)))]

get_column_to_plot(stat) ==
    IF str_lower(stat) \notin ValidStats
    THEN [exited |-> TRUE,
          err |-> print_usage \o <<STAT_ERROR>>,
          value |-> <<>>]
    ELSE [exited |-> FALSE,
          err |-> <<>>,
          value |-> str_split(FormatColumns(str_lower(stat)))]

(***************************************************************************)
(* Arithmetic of the views.  A quotient is an exact fraction in lowest     *)
(* terms; division by zero does not raise on a table column: it yields     *)
(* inf (Inf) for a non-zero dividend and nan (NaN) for 0/0.                *)
(***************************************************************************)
RECURSIVE GCD(_, _)
GCD(a, b) == IF b = 0 THEN a ELSE GCD(b, a % b)

Inf == [num |-> 1, den |-> 0]
NaN == [num |-> 0, den |-> 0]

\* floor division in place of true division
truediv_floor(a, b) ==
    IF b = 0
    THEN IF a = 0 THEN NaN ELSE Inf
    ELSE [num |-> a \div b, den |-> 1]

truediv(a, b) ==
    IF b = 0
    THEN IF a = 0 THEN NaN ELSE Inf
    ELSE [num |-> a \div GCD(a, b), den |-> b \div GCD(a, b)]

\* element-wise a / b of two aligned columns
series_div(a, b) == [r \in 1..Len(a) |-> truediv(a[r], b[r])]

(***************************************************************************)
(* Tables, axes and figures.                                               *)
(***************************************************************************)
None == <<>>

HasColumn(d, y) == y \in DOMAIN d.cols

NewAx == [lines |-> <<>>, legend |-> FALSE, title |-> "", ylabel |-> "",
          xlabel |-> "", ylim |-> None]

ax_plot(ax, x, y, label) ==
    [ax EXCEPT !.lines = Append(@, [x |-> x, y |-> y, label |-> label])]

Decorate(ax, title, ylabel) ==
    [ax EXCEPT !.legend = TRUE, !.title = title, !.ylabel = ylabel,
               !.xlabel = "Number length in bytes", !.ylim = <<0>>]

KeyError(ax) == [ax |-> ax, raised |-> TRUE]

set_tsc_cycle_ax(ax, d, y1, label1, y2, label2, y3, label3) ==
    IF ~HasColumn(d, y1) THEN KeyError(ax)
    ELSE LET a1 == ax_plot(ax, d.index, d.cols[y1], label1) IN
    IF ~HasColumn(d, y2) THEN KeyError(a1)
    ELSE LET a2 == ax_plot(a1, d.index, d.cols[y2], label2) IN
    IF y3 # None /\ ~HasColumn(d, y3[1]) THEN KeyError(a2)
    ELSE LET a3 == IF y3 # None
                   THEN ax_plot(a2, d.index, d.cols[y3[1]], label3[1])
                   ELSE a2
         IN [ax |-> Decorate(a3, "Latency", "TSC cycles (lower is better)"),
             raised |-> FALSE]

\* the throughput view dividing the column by the index
set_throughput_ax_inverted(ax, d, y1, label1, y2, label2, y3, label3) ==
    IF ~HasColumn(d, y1) THEN KeyError(ax)
    ELSE LET a1 == ax_plot(ax, d.index, series_div(d.cols[y1], d.index), label1) IN
    IF ~HasColumn(d, y2) THEN KeyError(a1)
    ELSE LET a2 == ax_plot(a1, d.index, series_div(d.cols[y2], d.index), label2) IN
    IF y3 # None /\ ~HasColumn(d, y3[1]) THEN KeyError(a2)
    ELSE LET a3 == IF y3 # None
                   THEN ax_plot(a2, d.index, series_div(d.cols[y3[1]], d.index),
                                label3[1])
                   ELSE a2
         IN [ax |-> Decorate(a3, "Throughput",
                             "Bytes per TSC cycle (higher is better)"),
             raised |-> FALSE]

set_throughput_ax(ax, d, y1, label1, y2, label2, y3, label3) ==
    IF ~HasColumn(d, y1) THEN KeyError(ax)
    ELSE LET a1 == ax_plot(ax, d.index, series_div(d.index, d.cols[y1]), label1) IN
    IF ~HasColumn(d, y2) THEN KeyError(a1)
    ELSE LET a2 == ax_plot(a1, d.index, series_div(d.index, d.cols[y2]), label2) IN
    IF y3 # None /\ ~HasColumn(d, y3[1]) THEN KeyError(a2)
    ELSE LET a3 == IF y3 # None
                   THEN ax_plot(a2, d.index, series_div(d.index, d.cols[y3[1]]),
                                label3[1])
                   ELSE a2
         IN [ax |-> Decorate(a3, "Throughput",
                             "Bytes per TSC cycle (higher is better)"),
             raised |-> FALSE]

\* the reciprocal view reading the first column for every series
set_reciprocal_throughput_ax_first_column(ax, d, y1, label1, y2, label2, y3, label3) ==
    IF ~HasColumn(d, y1) THEN KeyError(ax)
    ELSE LET a1 == ax_plot(ax, d.index, series_div(d.cols[y1], d.index), label1) IN
    IF ~HasColumn(d, y2) THEN KeyError(a1)
    ELSE LET a2 == ax_plot(a1, d.index, series_div(d.cols[y1], d.index), label2) IN
    IF y3 # None /\ ~HasColumn(d, y3[1]) THEN KeyError(a2)
    ELSE LET a3 == IF y3 # None
                   THEN ax_plot(a2, d.index, series_div(d.cols[y1], d.index),
                                label3[1])
                   ELSE a2
         IN [ax |-> Decorate(a3, "Reciprocal Throughput",
                             "TSC cycles per byte (lower is better)"),
             raised |-> FALSE]

set_reciprocal_throughput_ax(ax, d, y1, label1, y2, label2, y3, label3) ==
    IF ~HasColumn(d, y1) THEN KeyError(ax)
    ELSE LET a1 == ax_plot(ax, d.index, series_div(d.cols[y1], d.index), label1) IN
    IF ~HasColumn(d, y2) THEN KeyError(a1)
    ELSE LET a2 == ax_plot(a1, d.index, series_div(d.cols[y2], d.index), label2) IN
    IF y3 # None /\ ~HasColumn(d, y3[1]) THEN KeyError(a2)
    ELSE LET a3 == IF y3 # None
                   THEN ax_plot(a2, d.index, series_div(d.cols[y3[1]], d.index),
                                label3[1])
                   ELSE a2
         IN [ax |-> Decorate(a3, "Reciprocal Throughput",
                             "TSC cycles per byte (lower is better)"),
             raised |-> FALSE]

\* the throughput view called without the third series
plot_benchmark_two_only(figs, d, y1, label1, y2, label2, y3, label3) ==
    LET r1 == set_tsc_cycle_ax(NewAx, d, y1, label1, y2, label2, y3, label3)
        r2 == set_throughput_ax(NewAx, d, y1, label1, y2, label2, None, None)
        r3 == set_reciprocal_throughput_ax(NewAx, d, y1, label1, y2, label2,
                                           y3, label3)
    IN  IF r1.raised
        THEN [figures |-> Append(figs, <<r1.ax, NewAx, NewAx>>), raised |-> TRUE]
        ELSE IF r2.raised
        THEN [figures |-> Append(figs, <<r1.ax, r2.ax, NewAx>>), raised |-> TRUE]
        ELSE [figures |-> Append(figs, <<r1.ax, r2.ax, r3.ax>>),
              raised |-> r3.raised]

\* the figure is created first (plt.subplots), then the three views are filled
\* in order; a KeyError leaves the figure as far as it got
plot_benchmark(figs, d, y1, label1, y2, label2, y3, label3) ==
    LET r1 == set_tsc_cycle_ax(NewAx, d, y1, label1, y2, label2, y3, label3)
        r2 == set_throughput_ax(NewAx, d, y1, label1, y2, label2, y3, label3)
        r3 == set_reciprocal_throughput_ax(NewAx, d, y1, label1, y2, label2,
                                           y3, label3)
    IN  IF r1.raised
        THEN [figures |-> Append(figs, <<r1.ax, NewAx, NewAx>>), raised |-> TRUE]
        ELSE IF r2.raised
        THEN [figures |-> Append(figs, <<r1.ax, r2.ax, NewAx>>), raised |-> TRUE]
        ELSE [figures |-> Append(figs, <<r1.ax, r2.ax, r3.ax>>),
              raised |-> r3.raised]

(***************************************************************************)
(* Inputs: the argument vector and the file behind the CSV path.           *)
(***************************************************************************)
Prog == <<"plot.py">>
CsvPath == <<"bench.csv">>
Extra == <<"extra">>

StatArgs == {<<"m","i","n">>, <<"M","I","N">>, <<"m","e","a","n">>,
             <<"M","e","A","n">>, <<"m","a","x">>, <<"m","a","X">>,
             <<"m","e","d">>, <<>>, <<"m","i","n"," ">>}

Argvs ==
    {<<Prog>>, <<Prog, CsvPath>>}
    \cup {<<Prog, CsvPath, s>> \o e :
            s \in StatArgs,
            e \in UNION {[1..k -> {Extra}] : k \in 0..(MaxArgc - 3)}}

CsvColumns ==
    <<"std_min", "parse_integer_no_simd_min", "std_delimeter_min",
      "parse_integer_no_simd_delimeter_min", "parse_integer_simd_delimeter_min",
      "std_mean", "parse_integer_no_simd_mean", "std_delimeter_mean",
      "parse_integer_no_simd_delimeter_mean", "parse_integer_simd_delimeter_mean",
      "std_max", "parse_integer_no_simd_max", "std_delimeter_max",
      "parse_integer_no_simd_delimeter_max", "parse_integer_simd_delimeter_max">>

ColNo(c) == CHOOSE k \in 1..Len(CsvColumns) : CsvColumns[k] = c

AllColumns == {CsvColumns[k] : k \in 1..Len(CsvColumns)}
MinColumns == {CsvColumns[k] : k \in 1..5}

Headers == {AllColumns, MinColumns} \cup {MinColumns \ {c} : c \in MinColumns}

EmptyTable == [index |-> <<>>, cols |-> [c \in {} |-> <<>>]]

\* a table whose measurements run through every value of 0..MaxVal
Table(index, b, header) ==
    [index |-> index,
     cols |-> [c \in header |->
                 [r \in 1..Len(index) |-> (b + ColNo(c) + r) % (MaxVal + 1)]]]

\* the table of the documented example: index 1,2,4 and std_min 10,20,30
ExampleTable ==
    [index |-> <<1, 2, 4>>,
     cols |-> [c \in MinColumns |->
                 IF c = "std_min" THEN <<10, 20, 30>>
                 ELSE [r \in 1..3 |-> 10 * r + ColNo(c)]]]

Tables ==
    {ExampleTable}
    \cup {Table(index, b, header) :
            index \in UNION {[1..n -> 0..MaxVal] : n \in 1..MaxRows},
            b \in 0..MaxVal,
            header \in Headers}

Files ==
    {[kind |-> "missing", table |-> EmptyTable],
     [kind |-> "malformed", table |-> EmptyTable]}
    \cup {[kind |-> "table", table |-> t] : t \in Tables}

(***************************************************************************)
(* State after interpreter start-up, before main runs.                     *)
(***************************************************************************)
Init ==
    /\ argv \in Argvs
    /\ fs \in Files
    /\ pc = "main"
    /\ task = <<>>
    /\ csv = <<>>
    /\ column_to_plot = <<>>
    /\ df = EmptyTable
    /\ figures = <<>>
    /\ stderr = <<>>
    /\ exc = "none"
    /\ exit_code = 0
    /\ shown = FALSE
    /\ reads = 0
    /\ steps = <<>>

(***************************************************************************)
(* main, statement by statement.                                           *)
(***************************************************************************)
\* the argument check comparing against 1
ArgCheck_less_than_one ==
    /\ pc = "main"
    /\ steps' = Append(steps, "argcheck")
    /\ IF Len(argv) < 1
       THEN /\ stderr' = stderr \o print_usage \o <<NO_FILE_ERROR>>
            /\ exc' = "SystemExit"
            /\ exit_code' = 1
            /\ pc' = "exit"
       ELSE /\ pc' = "resolve"
            /\ UNCHANGED <<stderr, exc, exit_code>>
    /\ UNCHANGED <<argv, fs, task, csv, column_to_plot, df, figures, shown, reads>>

\* lines 81-85: the argument check
ArgCheck ==
    /\ pc = "main"
    /\ steps' = Append(steps, "argcheck")
    /\ IF Len(argv) < 2
       THEN /\ stderr' = stderr \o print_usage \o <<NO_FILE_ERROR>>
            /\ exc' = "SystemExit"
            /\ exit_code' = 1
            /\ pc' = "exit"
       ELSE /\ pc' = "resolve"
            /\ UNCHANGED <<stderr, exc, exit_code>>
    /\ UNCHANGED <<argv, fs, task, csv, column_to_plot, df, figures, shown, reads>>

\* lines 86-90: the CSV path and the statistic
ResolveStat ==
    /\ pc = "resolve"
    /\ csv' = argv[2]
    /\ task' = IF Len(argv) = 3 THEN argv[3] ELSE <<"m","i","n">>
    /\ pc' = "get_column"
    /\ steps' = Append(steps, "resolve")
    /\ UNCHANGED <<argv, fs, column_to_plot, df, figures, stderr, exc,
                   exit_code, shown, reads>>

\* line 91: validation of the statistic and derivation of the column names
GetColumn ==
    /\ pc = "get_column"
    /\ steps' = Append(steps, "validate")
    /\ LET r == get_column_to_plot(task) IN
         IF r.exited
         THEN /\ stderr' = stderr \o r.err
              /\ exc' = "SystemExit"
              /\ exit_code' = 1
              /\ pc' = "exit"
              /\ UNCHANGED column_to_plot
         ELSE /\ column_to_plot' = r.value
              /\ pc' = "read_csv"
              /\ UNCHANGED <<stderr, exc, exit_code>>
    /\ UNCHANGED <<argv, fs, task, csv, df, figures, shown, reads>>

\* an exception no handler catches: traceback on standard error, status 1
Uncaught(name) ==
    /\ exc' = name
    /\ stderr' = Append(stderr, TRACEBACK)
    /\ exit_code' = 1
    /\ pc' = "fatal"

\* a load that handles its failures as usage errors
ReadCsv_caught ==
    /\ pc = "read_csv"
    /\ steps' = Append(steps, "read_csv")
    /\ reads' = reads + 1
    /\ IF fs.kind # "table"
       THEN /\ stderr' = stderr \o print_usage
            /\ exc' = "SystemExit"
            /\ exit_code' = 1
            /\ pc' = "exit"
            /\ UNCHANGED df
       ELSE /\ df' = fs.table
            /\ pc' = "plot2"
            /\ UNCHANGED <<stderr, exc, exit_code>>
    /\ UNCHANGED <<argv, fs, task, csv, column_to_plot, figures, shown>>

\* line 93: pd.read_csv(csv, index_col=0)
ReadCsv ==
    /\ pc = "read_csv"
    /\ steps' = Append(steps, "read_csv")
    /\ reads' = reads + 1
    /\ IF fs.kind = "missing"
       THEN Uncaught("FileNotFoundError") /\ UNCHANGED df
       ELSE IF fs.kind = "malformed"
       THEN Uncaught("ParserError") /\ UNCHANGED df
       ELSE /\ df' = fs.table
            /\ pc' = "plot2"
            /\ UNCHANGED <<stderr, exc, exit_code>>
    /\ UNCHANGED <<argv, fs, task, csv, column_to_plot, figures, shown>>

Label(text) == text \o " (" \o Str(task) \o ")"

\* the two-series figure followed at once by the display
PlotTwoSeries_then_show ==
    /\ pc = "plot2"
    /\ steps' = Append(steps, "plot2")
    /\ LET r == plot_benchmark(figures, df,
                               column_to_plot[1], Label("naive method"),
                               column_to_plot[2], Label("no simd library parsing"),
                               None, None)
       IN /\ figures' = r.figures
          /\ IF r.raised
             THEN Uncaught("KeyError")
             ELSE pc' = "show" /\ UNCHANGED <<stderr, exc, exit_code>>
    /\ UNCHANGED <<argv, fs, task, csv, column_to_plot, df, shown, reads>>

\* lines 94-100: the two-series figure
PlotTwoSeries ==
    /\ pc = "plot2"
    /\ steps' = Append(steps, "plot2")
    /\ LET r == plot_benchmark(figures, df,
                               column_to_plot[1], Label("naive method"),
                               column_to_plot[2], Label("no simd library parsing"),
                               None, None)
       IN /\ figures' = r.figures
          /\ IF r.raised
             THEN Uncaught("KeyError")
             ELSE pc' = "plot3" /\ UNCHANGED <<stderr, exc, exit_code>>
    /\ UNCHANGED <<argv, fs, task, csv, column_to_plot, df, shown, reads>>

\* lines 101-109: the three-series figure
PlotThreeSeries ==
    /\ pc = "plot3"
    /\ steps' = Append(steps, "plot3")
    /\ LET r == plot_benchmark(figures, df,
                               column_to_plot[3], Label("naive method"),
                               column_to_plot[4], Label("no simd library parsing"),
                               <<column_to_plot[5]>>,
                               <<Label("simd library parsing")>>)
       IN /\ figures' = r.figures
          /\ IF r.raised
             THEN Uncaught("KeyError")
             ELSE pc' = "tight_layout" /\ UNCHANGED <<stderr, exc, exit_code>>
    /\ UNCHANGED <<argv, fs, task, csv, column_to_plot, df, shown, reads>>

\* line 110: plt.tight_layout()
TightLayout ==
    /\ pc = "tight_layout"
    /\ pc' = "show"
    /\ steps' = Append(steps, "tight_layout")
    /\ UNCHANGED <<argv, fs, task, csv, column_to_plot, df, figures, stderr,
                   exc, exit_code, shown, reads>>

\* line 111: plt.show(), which returns when the windows are closed
Show ==
    /\ pc = "show"
    /\ shown' = TRUE
    /\ pc' = "done"
    /\ steps' = Append(steps, "show")
    /\ UNCHANGED <<argv, fs, task, csv, column_to_plot, df, figures, stderr,
                   exc, exit_code, reads>>

Next ==
    \/ ArgCheck
    \/ ResolveStat
    \/ GetColumn
    \/ ReadCsv
    \/ PlotTwoSeries
    \/ PlotThreeSeries
    \/ TightLayout
    \/ Show

Spec == Init /\ [][Next]_vars

(***************************************************************************)
(* Vocabulary of the properties, written without the program's own         *)
(* lower-casing, formatting, splitting or division.                        *)
(***************************************************************************)
IsMin(s) ==
    /\ Len(s) = 3
    /\ s[1] \in {"m", "M"} /\ s[2] \in {"i", "I"} /\ s[3] \in {"n", "N"}

IsMean(s) ==
    /\ Len(s) = 4
    /\ s[1] \in {"m", "M"} /\ s[2] \in {"e", "E"}
    /\ s[3] \in {"a", "A"} /\ s[4] \in {"n", "N"}

IsMax(s) ==
    /\ Len(s) = 3
    /\ s[1] \in {"m", "M"} /\ s[2] \in {"a", "A"} /\ s[3] \in {"x", "X"}

IsValidStat(s) == IsMin(s) \/ IsMean(s) \/ IsMax(s)

StatName(s) == IF IsMin(s) THEN "min" ELSE IF IsMean(s) THEN "mean" ELSE "max"

ExpectedColumns(l) ==
    <<"std_" \o l, "parse_integer_no_simd_" \o l, "std_delimeter_" \o l,
      "parse_integer_no_simd_delimeter_" \o l,
      "parse_integer_simd_delimeter_" \o l>>

Range(q) == {q[i] : i \in 1..Len(q)}

Started == pc \notin {"main", "resolve"}
\* get_column_to_plot has been called on a valid statistic
ValidArgs ==
    /\ Len(argv) >= 2
    /\ pc \notin {"main", "resolve", "get_column"}
    /\ IsValidStat(task)

\* q is the quotient a / b
IsQuotient(q, a, b) ==
    IF b # 0
    THEN q.den > 0 /\ q.num * b = q.den * a
    ELSE q.den = 0 /\ q.num = (IF a = 0 THEN 0 ELSE 1)

One == [num |-> 1, den |-> 1]

\* the product of two quotients; 0 * inf and anything * nan are nan
Product(p, q) ==
    LET n == p.num * q.num
        d == p.den * q.den
    IN  IF d = 0
        THEN [num |-> IF n = 0 THEN 0 ELSE 1, den |-> 0]
        ELSE [num |-> n \div GCD(n, d), den |-> d \div GCD(n, d)]

\* the column behind series k of figure i
SeriesColumn(i, k) == column_to_plot[IF i = 1 THEN k ELSE 2 + k]

FileHasColumns ==
    /\ fs.kind = "table"
    /\ Range(ExpectedColumns(StatName(task))) \subseteq DOMAIN fs.table.cols

FigureComplete(i) ==
    /\ Len(figures) >= i
    /\ \A v \in 1..3 : figures[i][v].legend

(***************************************************************************)
(* C1.  For every argument list with a CSV path the statistic is the       *)
(* second argument whenever one is given, however many arguments follow    *)
(* it, and "min" otherwise.                                                *)
(***************************************************************************)
C1StatIsSecondArgument ==
    (Started /\ Len(argv) >= 2) =>
        task = (IF Len(argv) >= 3 THEN argv[3] ELSE <<"m", "i", "n">>)

(***************************************************************************)
(* C2.  A statistic that is not min, mean or max in some letter case makes *)
(* the program write the usage text and then the statistic error to        *)
(* standard error and exit with status 1; the CSV is never read and no     *)
(* figure is made.                                                         *)
(***************************************************************************)
C2InvalidStatExits ==
    (Len(argv) >= 2 /\ pc \notin {"main", "resolve", "get_column"}
        /\ ~IsValidStat(task)) =>
        /\ pc = "exit"
        /\ exc = "SystemExit"
        /\ exit_code = 1
        /\ stderr = <<USAGE_STR, STAT_ERROR>>
        /\ reads = 0
        /\ df = EmptyTable
        /\ figures = <<>>
        /\ ~shown

C2Witness ==
    /\ pc = "exit"
    /\ task = <<"m", "e", "d">>
    /\ stderr = <<USAGE_STR, STAT_ERROR>>
    /\ fs.kind = "table"

(***************************************************************************)
(* C3.  Without a CSV path the program writes the usage text to standard   *)
(* error and exits with status 1; no statistic is validated, no CSV is     *)
(* read and no figure is made.                                             *)
(***************************************************************************)
C3NoArguments ==
    (Len(argv) < 2 /\ pc # "main") =>
        /\ pc = "exit"
        /\ exc = "SystemExit"
        /\ exit_code = 1
        /\ Len(stderr) >= 1 /\ stderr[1] = USAGE_STR
        /\ STAT_ERROR \notin Range(stderr)
        /\ steps = <<"argcheck">>
        /\ column_to_plot = <<>>
        /\ reads = 0
        /\ df = EmptyTable
        /\ figures = <<>>
        /\ ~shown

C3Witness ==
    /\ pc = "exit"
    /\ Len(argv) = 1
    /\ stderr = <<USAGE_STR, NO_FILE_ERROR>>
    /\ exit_code = 1

(***************************************************************************)
(* C4.  For min, mean or max in any letter case get_column_to_plot returns *)
(* the five names std_l, parse_integer_no_simd_l, std_delimeter_l,         *)
(* parse_integer_no_simd_delimeter_l, parse_integer_simd_delimeter_l in    *)
(* this order, l being the lower-cased statistic; nothing is written and   *)
(* the program does not exit.                                              *)
(***************************************************************************)
C4ColumnNames ==
    /\ \A s \in StatArgs :
          IsValidStat(s) =>
             get_column_to_plot(s) =
                [exited |-> FALSE, err |-> <<>>,
                 value |-> ExpectedColumns(StatName(s))]
    /\ ValidArgs =>
          /\ column_to_plot = ExpectedColumns(StatName(task))
          /\ exc # "SystemExit"
          /\ USAGE_STR \notin Range(stderr)

C4Witness ==
    /\ pc = "read_csv"
    /\ task = <<"M", "e", "A", "n">>
    /\ column_to_plot =
          <<"std_mean", "parse_integer_no_simd_mean", "std_delimeter_mean",
            "parse_integer_no_simd_delimeter_mean",
            "parse_integer_simd_delimeter_mean">>
    /\ stderr = <<>>

(***************************************************************************)
(* C5.  Every value plotted in a throughput view is the row's index        *)
(* divided by the row's raw column value, every value in a reciprocal      *)
(* throughput view is the raw column value divided by the index, and every *)
(* value in a latency view is the raw column value.                        *)
(***************************************************************************)
C5ViewValues ==
    \A i \in 1..Len(figures) : \A v \in 1..3 :
       \A k \in 1..Len(figures[i][v].lines) :
          LET line == figures[i][v].lines[k]
              col == df.cols[SeriesColumn(i, k)]
          IN /\ line.x = df.index
             /\ Len(line.y) = Len(df.index)
             /\ \A r \in 1..Len(df.index) :
                   CASE v = 1 -> line.y[r] = col[r]
                     [] v = 2 -> IsQuotient(line.y[r], df.index[r], col[r])
                     [] v = 3 -> IsQuotient(line.y[r], col[r], df.index[r])

C5Witness ==
    /\ pc = "done"
    /\ FigureComplete(2)
    /\ df.index[1] = 1
    /\ df.cols[SeriesColumn(2, 3)][1] = 2
    /\ figures[2][1].lines[3].y[1] = 2
    /\ figures[2][2].lines[3].y[1] = [num |-> 1, den |-> 2]
    /\ figures[2][3].lines[3].y[1] = [num |-> 2, den |-> 1]

(***************************************************************************)
(* C6.  As claimed: for every series and every row, rows with index 0 or   *)
(* raw value 0 included, the throughput value times the reciprocal         *)
(* throughput value is exactly 1.                                          *)
(***************************************************************************)
C6InverseEveryRow ==
    \A i \in 1..Len(figures) :
       FigureComplete(i) =>
          \A k \in 1..Len(figures[i][2].lines) : \A r \in 1..Len(df.index) :
             Product(figures[i][2].lines[k].y[r], figures[i][3].lines[k].y[r]) = One

(***************************************************************************)
(* C6, amended.  For every series and every row whose index and raw value  *)
(* are both non-zero, the throughput value times the reciprocal throughput *)
(* value is exactly 1.                                                     *)
(***************************************************************************)
C6InverseNonZeroRows ==
    \A i \in 1..Len(figures) :
       FigureComplete(i) =>
          /\ Len(figures[i][2].lines) = Len(figures[i][3].lines)
          /\ \A k \in 1..Len(figures[i][2].lines) : \A r \in 1..Len(df.index) :
                (df.index[r] # 0 /\ df.cols[SeriesColumn(i, k)][r] # 0) =>
                   Product(figures[i][2].lines[k].y[r],
                           figures[i][3].lines[k].y[r]) = One

C6Witness ==
    /\ FigureComplete(1)
    /\ df.index[1] = 2
    /\ df.cols[SeriesColumn(1, 2)][1] = 1
    /\ figures[1][2].lines[2].y[1] = [num |-> 2, den |-> 1]
    /\ figures[1][3].lines[2].y[1] = [num |-> 1, den |-> 2]

(***************************************************************************)
(* C7.  The documented example, index 1,2,4 and std_min 10,20,30.          *)
(***************************************************************************)
ExampleLoaded ==
    /\ FigureComplete(1)
    /\ df.index = <<1, 2, 4>>
    /\ SeriesColumn(1, 1) = "std_min"
    /\ df.cols["std_min"] = <<10, 20, 30>>

\* C7.  As claimed: the throughput view plots 10, 10, 7.5 for std_min and
\* the reciprocal throughput view plots 0.1, 0.1, 0.1333...
C7ExampleAsClaimed ==
    ExampleLoaded =>
       /\ figures[1][2].lines[1].y =
             <<[num |-> 10, den |-> 1], [num |-> 10, den |-> 1],
               [num |-> 15, den |-> 2]>>
       /\ figures[1][3].lines[1].y =
             <<[num |-> 1, den |-> 10], [num |-> 1, den |-> 10],
               [num |-> 2, den |-> 15]>>

\* C7, amended.  The throughput view plots 0.1, 0.1, 0.1333... for std_min
\* and the reciprocal throughput view plots 10, 10, 7.5.
C7Example ==
    ExampleLoaded =>
       /\ figures[1][2].lines[1].y =
             <<[num |-> 1, den |-> 10], [num |-> 1, den |-> 10],
               [num |-> 2, den |-> 15]>>
       /\ figures[1][3].lines[1].y =
             <<[num |-> 10, den |-> 1], [num |-> 10, den |-> 1],
               [num |-> 15, den |-> 2]>>

C7Witness ==
    /\ ExampleLoaded
    /\ pc = "done"
    /\ figures[1][2].lines[1].label = "naive method (min)"

(***************************************************************************)
(* C8.  With a table that holds the five columns of the resolved           *)
(* statistic, a run makes exactly two figures of three views each          *)
(* (latency, throughput, reciprocal throughput); the first plots the two   *)
(* series std and parse_integer_no_simd in every view, the second the      *)
(* three delimeter series in every view; a third series is plotted exactly *)
(* when a third column name is passed; nothing is raised.                  *)
(***************************************************************************)
ViewTitles == <<"Latency", "Throughput", "Reciprocal Throughput">>

FigurePlots(i, n) ==
    /\ Len(figures[i]) = 3
    /\ \A v \in 1..3 :
          /\ figures[i][v].title = ViewTitles[v]
          /\ Len(figures[i][v].lines) = n
    /\ \A k \in 1..n :
          figures[i][1].lines[k].y =
             fs.table.cols[ExpectedColumns(StatName(task))[IF i = 1 THEN k ELSE 2 + k]]

C8TwoFigures ==
    (ValidArgs /\ FileHasColumns) =>
        /\ pc # "fatal"
        /\ exc = "none"
        /\ stderr = <<>>
        /\ pc = "read_csv" => figures = <<>>
        /\ pc = "plot2" => figures = <<>>
        /\ pc = "plot3" => Len(figures) = 1 /\ FigurePlots(1, 2)
        /\ pc \in {"tight_layout", "show", "done"} =>
              Len(figures) = 2 /\ FigurePlots(1, 2) /\ FigurePlots(2, 3)

C8Witness ==
    /\ pc = "done"
    /\ task = <<"m", "a", "X">>
    /\ Len(figures) = 2
    /\ Len(figures[1][2].lines) = 2
    /\ Len(figures[2][3].lines) = 3
    /\ figures[2][1].lines[3].label = "simd library parsing (maX)"

(***************************************************************************)
(* C9.  With valid arguments and a CSV that is missing, malformed or       *)
(* without one of the five columns, the failure is not caught: the run     *)
(* ends in an uncaught error, no usage text is written and the display is  *)
(* never reached, even when a figure was made before the failure.          *)
(***************************************************************************)
C9UncaughtFailure ==
    (ValidArgs /\ ~FileHasColumns) =>
        /\ pc \in {"read_csv", "plot2", "plot3", "fatal"}
        /\ ~shown
        /\ USAGE_STR \notin Range(stderr)
        /\ pc \in {"plot2", "plot3"} => fs.kind = "table" /\ exc = "none"
        /\ pc = "plot3" =>
              \E k \in 3..5 : column_to_plot[k] \notin DOMAIN df.cols
        /\ pc = "fatal" =>
              /\ stderr = <<TRACEBACK>>
              /\ exit_code = 1
              /\ exc = (IF fs.kind = "missing" THEN "FileNotFoundError"
                        ELSE IF fs.kind = "malformed" THEN "ParserError"
                        ELSE "KeyError")

C9Witness ==
    /\ pc = "fatal"
    /\ exc = "KeyError"
    /\ Len(figures) = 2
    /\ FigureComplete(1)
    /\ ~FigureComplete(2)
    /\ ~shown

(***************************************************************************)
(* C10.  A successful run performs, in this order and each once: argument  *)
(* check, statistic validation, CSV load, the two-series figure, the       *)
(* three-series figure, the display; the display never precedes the two    *)
(* figures, the table is loaded once and no rendering step changes it.     *)
(***************************************************************************)
RunOrder == <<"argcheck", "resolve", "validate", "read_csv", "plot2", "plot3",
              "tight_layout", "show">>

IsClaimedStep(x) ==
    x \in {"argcheck", "validate", "read_csv", "plot2", "plot3", "show"}

C10RunOrder ==
    /\ Len(steps) <= Len(RunOrder)
    /\ \A n \in 1..Len(steps) : steps[n] = RunOrder[n]
    /\ pc = "done" =>
          /\ SelectSeq(steps, IsClaimedStep) =
                <<"argcheck", "validate", "read_csv", "plot2", "plot3", "show">>
          /\ shown
          /\ exc = "none"
    /\ shown => FigureComplete(1) /\ FigureComplete(2) /\ Len(figures) = 2
    /\ reads <= 1
    /\ pc \in {"plot2", "plot3", "tight_layout", "show", "done"} =>
          reads = 1 /\ df = fs.table

C10Witness ==
    /\ pc = "done"
    /\ shown
    /\ steps = RunOrder
    /\ reads = 1
    /\ Len(figures) = 2

====
